---- MODULE Spec2Model ----
(***************************************************************************)
(* drf-caching: the cache_view decorator (src/drf_caching/cache.py), its   *)
(* key strategies (keys.py), settings (settings.py) and exceptions         *)
(* (exceptions.py), as a state machine.                                    *)
(*                                                                         *)
(* Strings whose characters matter (facet names and values, the pre-hash   *)
(* fingerprint) are sequences of one-character strings.  Time is counted   *)
(* in ticks of 1/TicksPerSec seconds.                                      *)
(***************************************************************************)
EXTENDS Integers, Sequences, FiniteSets, TLC

VARIABLES
    settings,    \* django_settings.DRF_CACHING after Settings(**settings)
    backend,     \* type of caches[settings.CACHE]
    timeoutArg,  \* the decorator's timeout argument
    keys,        \* the decorator's *keys argument: a sequence of strategies
    phase,       \* "new" | "ready" | "failed" : CacheView.__init__ progress
    error,       \* the exception __init__ raised, or "none"
    self,        \* the constructed CacheView: [headers, timeout]
    store,       \* the backend: composed key -> entry (or Absent)
    now,         \* time.time(), in ticks
    request,     \* the inputs of the request handled last
    key,         \* the key _get_key composed for it
    resp,        \* what the request handled last returned (or raised)
    served,      \* the number of requests handled so far
    keyOf,       \* request facets -> the key first composed for them
    procs        \* the requests handled concurrently: each one's position

vars == <<settings, backend, timeoutArg, keys, phase, error, self, store, now,
          request, key, resp, served, keyOf, procs>>

----------------------------------------------------------------------------
(* Values *)

\* Python values carry their type: None, the NotGiven sentinel, an int, a str
\* (its characters), a list of header names (its members).
None == [none |-> TRUE]
NotGiven == [notgiven |-> TRUE]
PyInt(n) == [int |-> n]
PyStr(chars) == [str |-> chars]
PyList(members) == [list |-> members]

\* isinstance(v, int)
IsInt(v) == "int" \in DOMAIN v

\* isinstance(v, str)
IsStr(v) == "str" \in DOMAIN v

\* A header a response does not carry, and one it carries.
AbsentH == [absent |-> TRUE]
H(v) == [value |-> v]

\* str(None)
NoneStr == <<"N", "o", "n", "e">>

\* The facet values a request may carry: kwargs.get(field) and
\* request.headers.get(field) return a string, or None when the name is missing.
FacetStrings ==
    { <<>>, <<"x">>, <<"y">>, NoneStr, <<"&", "b", "=">>, <<"x", "&", "b", "=">> }

FacetValues == {PyStr(chars) : chars \in FacetStrings} \cup {None}

\* Field names used by the strategies with fields.
FieldA == <<"a">>
FieldB == <<"b">>
FieldH == <<"h">>

\* The query parameters the paginators read.
PageParam == <<"p", "a", "g", "e">>
PageSizeParam == <<"p", "a", "g", "e", "_", "s", "i", "z", "e">>
LimitParam == <<"l", "i", "m", "i", "t">>
OffsetParam == <<"o", "f", "f", "s", "e", "t">>
CursorParam == <<"c", "u", "r", "s", "o", "r">>

\* The pagination classes RequestPaginationKey knows.
PaginatorClasses == {"PageNumberPagination", "LimitOffsetPagination", "CursorPagination"}

----------------------------------------------------------------------------
(* keys.py: BaseKey.get_key and the strategies' _get_data *)

\* f"{v}" for a facet value
FormatValue(v) == IF v = None THEN NoneStr ELSE v.str

\* {field: kwargs.get(field) for field in self.fields}, an insertion-ordered
\* dict as a sequence of <<name, value>> pairs
RequestKwargsKey_get_data(k, req) ==
    [i \in 1..Len(k.fields) |-> <<PyStr(k.fields[i]), req.kwargs[k.fields[i]]>>]

\* {field: request.headers.get(field) for field in self.fields}
RequestHeadersKey_get_data(k, req) ==
    [i \in 1..Len(k.fields) |-> <<PyStr(k.fields[i]), req.headers[k.fields[i]]>>]

\* {"lookup_field": kwargs.get(view_instance.lookup_field)}; the view's
\* lookup_field is "a"
LookupFieldKey_get_data(k, req) ==
    << <<PyStr(<<"l", "f">>), req.kwargs[FieldA]>> >>

\* RequestPaginationKey._get_data: the error it raises, or "none"
RequestPaginationKey_get_data_error(k, req) ==
    IF req.paginator \in PaginatorClasses THEN "none" ELSE "UnsupportedPaginatorError"

\* RequestPaginationKey._get_data: the dict it returns for a paginator it
\* knows (the paginator's *_query_param attributes name the parameters)
RequestPaginationKey_get_data(k, req) ==
    IF req.paginator = "PageNumberPagination"
    THEN << <<PyStr(PageParam), req.query[PageParam]>>,
            <<PyStr(PageSizeParam), req.query[PageSizeParam]>> >>
    ELSE IF req.paginator = "LimitOffsetPagination"
    THEN << <<PyStr(LimitParam), req.query[LimitParam]>>,
            <<PyStr(OffsetParam), req.query[OffsetParam]>> >>
    ELSE << <<PyStr(CursorParam), req.query[CursorParam]>>,
            <<PyStr(PageSizeParam), req.query[PageSizeParam]>> >>

\* A strategy the application defines on BaseKey, whose _get_data returns
\* {1: kwargs.get("a")}: the key of its dict is an int
PositionKey_get_data(k, req) == << <<PyInt(1), req.kwargs[FieldA]>> >>

\* self._get_data(...) of the strategy's class; a subclass the application
\* defines without overriding it inherits RequestKwargsKey's
_get_data(k, req) ==
    CASE k.cls = "RequestKwargsKey" -> RequestKwargsKey_get_data(k, req)
      [] k.cls = "app.RequestKwargsKey" -> RequestKwargsKey_get_data(k, req)
      [] k.cls = "RequestHeadersKey" -> RequestHeadersKey_get_data(k, req)
      [] k.cls = "LookupFieldKey" -> LookupFieldKey_get_data(k, req)
      [] k.cls = "RequestPaginationKey" -> RequestPaginationKey_get_data(k, req)
      [] k.cls = "app.PositionKey" -> PositionKey_get_data(k, req)

\* self._get_data(...): the error it raises, or "none"
_get_data_error(k, req) ==
    IF k.cls = "RequestPaginationKey" THEN RequestPaginationKey_get_data_error(k, req)
    ELSE "none"

\* A mutant of _get_data_aux: the keys of the dict are not tested.
_get_data_aux_error_untested(k, req) == _get_data_error(k, req)

\* BaseKey._get_data_aux: the error it raises, or "none" (it then returns
\* the dict of _get_data)
_get_data_aux_error(k, req) ==
    IF _get_data_error(k, req) # "none" THEN _get_data_error(k, req)
    ELSE IF \E i \in 1..Len(_get_data(k, req)) : ~IsStr(_get_data(k, req)[i][1])
         THEN "InvalidDataError"
    ELSE "none"

\* f"{k}" for a key of the dict: a str as it is, a one-digit int as its digit
FormatKey(k) ==
    IF IsStr(k) THEN k.str
    ELSE << <<"0", "1", "2", "3", "4", "5", "6", "7", "8", "9">>[k.int + 1] >>

\* f"{k}={v}"
Pair(p) == FormatKey(p[1]) \o <<"=">> \o FormatValue(p[2])

RECURSIVE Join(_, _)
\* sep.join(parts)
Join(sep, parts) ==
    IF Len(parts) = 0 THEN <<>>
    ELSE IF Len(parts) = 1 THEN parts[1]
    ELSE parts[1] \o sep \o Join(sep, Tail(parts))

\* BaseKey.get_key: "&".join([f"{k}={v}" for k, v in data.items()])
get_key(k, req) ==
    Join(<<"&">>, [i \in 1..Len(_get_data(k, req)) |-> Pair(_get_data(k, req)[i])])

----------------------------------------------------------------------------
(* cache.py: CacheView._get_key *)

\* The subclasses of BaseKey: four of keys.py, and two the application
\* defines: `class RequestKwargsKey(drf_caching.RequestKwargsKey)` and
\* `class PositionKey(BaseKey)`.
KeyClasses ==
    {"LookupFieldKey", "RequestHeadersKey", "RequestKwargsKey", "RequestPaginationKey",
     "app.RequestKwargsKey", "app.PositionKey"}

\* key.__class__.__name__
ClassName(cls) ==
    IF cls = "app.RequestKwargsKey" THEN "RequestKwargsKey"
    ELSE IF cls = "app.PositionKey" THEN "PositionKey"
    ELSE cls

\* The class names, in the order json.dumps(sort_keys=True) writes them.
ClassOrder ==
    <<"LookupFieldKey", "PositionKey", "RequestHeadersKey", "RequestKwargsKey",
      "RequestPaginationKey">>

\* Index of the bucket of class c in the insertion-ordered dict d, 0 if none.
BucketIndex(d, c) ==
    IF \E i \in 1..Len(d) : d[i][1] = c
    THEN CHOOSE i \in 1..Len(d) : d[i][1] = c
    ELSE 0

\* key_dict["keys"][key.__class__.__name__].append(...) on a defaultdict(list)
BucketAppend(d, c, fp) ==
    IF BucketIndex(d, c) = 0 THEN Append(d, <<c, <<fp>>>>)
    ELSE [d EXCEPT ![BucketIndex(d, c)] = <<c, Append(d[BucketIndex(d, c)][2], fp)>>]

RECURSIVE Buckets(_, _, _)
\* for key in self.keys: ... , starting from the empty defaultdict
Buckets(ks, req, d) ==
    IF Len(ks) = 0 THEN d
    ELSE Buckets(Tail(ks), req,
                 BucketAppend(d, ClassName(ks[1].cls), get_key(ks[1], req)))

\* A mutant of the serialisation: json.dumps without sort_keys writes the
\* buckets in insertion order.
DumpBucketsUnsorted(d) == d

\* json.dumps(..., sort_keys=True) of the "keys" dict: the buckets in the
\* order of their class names
DumpBuckets(d) ==
    LET present == SelectSeq(ClassOrder, LAMBDA c : BucketIndex(d, c) # 0)
    IN  [i \in 1..Len(present) |-> d[BucketIndex(d, present[i])]]

\* hashlib.md5(...).hexdigest(): the digest stands for the text it digests
\* (collisions of the hash itself are outside the model)
Md5(text) == <<"md5", text>>

\* A mutant of _get_key: the key also depends on the time of the call.
_get_key_clock(ks, req) ==
    Md5(<<"format", req.format, "keys", DumpBuckets(Buckets(ks, req, <<>>)),
          "view_id", req.view_id, now>>)

\* CacheView._get_key: the error the first failing key.get_key raises, or
\* "none"
_get_key_error(ks, req) ==
    IF \A i \in 1..Len(ks) : _get_data_aux_error(ks[i], req) = "none" THEN "none"
    ELSE LET first == CHOOSE i \in 1..Len(ks) :
                         /\ _get_data_aux_error(ks[i], req) # "none"
                         /\ \A j \in 1..(i - 1) : _get_data_aux_error(ks[j], req) = "none"
         IN  _get_data_aux_error(ks[first], req)

\* CacheView._get_key: the key it returns
_get_key(ks, req) ==
    Md5(<<"format", req.format, "keys", DumpBuckets(Buckets(ks, req, <<>>)),
          "view_id", req.view_id>>)

----------------------------------------------------------------------------
(* exceptions.py *)

\* HeaderNotSupportedError.__init__(self, cache, header): a call binds its
\* positional arguments to cache, header in turn; a keyword that names no
\* parameter, or a parameter left unbound, is a TypeError raised in place of
\* the exception being constructed.
HeaderNotSupportedError_params == <<"cache", "header">>

\* raise HeaderNotSupportedError(<nPositional arguments>, <keywords>=...)
NewHeaderNotSupportedError(nPositional, keywords) ==
    LET params == HeaderNotSupportedError_params
        bound  == {params[i] : i \in 1..nPositional} \cup keywords
    IN  IF /\ nPositional <= Len(params)
           /\ keywords \subseteq {params[i] : i \in (nPositional + 1)..Len(params)}
           /\ bound = {params[i] : i \in 1..Len(params)}
        THEN "HeaderNotSupportedError"
        ELSE "TypeError"

----------------------------------------------------------------------------
(* headers.py, settings.py *)

\* Headers.model_fields
HeadersModelFields == {"age", "cache_control", "etag", "expires", "x_cache"}

\* Headers.normalize: header.lower().replace("-", "_"), on the names the
\* settings of this model use
normalize(header) ==
    CASE header = "age" -> "age"
      [] header = "cache-control" -> "cache_control"
      [] header = "etag" -> "etag"
      [] header = "expires" -> "expires"
      [] header = "x-cache" -> "x_cache"
      [] header = "X-Cache" -> "x_cache"
      [] header = "Cache-Control" -> "cache_control"
      [] header = "cache_control" -> "cache_control"
      [] header = "pragma" -> "pragma"

\* Settings.validate_headers: TRUE when it accepts v
validate_headers(v) ==
    v = None \/ \A header \in v.list : normalize(header) \in HeadersModelFields

\* Settings.validate_timeout, run on the TIMEOUT the settings give: "none",
\* or the error it raises (None < 1 is a TypeError)
validate_timeout(v) ==
    IF v = None THEN "TypeError"
    ELSE IF v.int < 1 THEN "ValueError"
    ELSE "none"

\* Settings.validate_cache: the alias must be one of django's caches
validate_cache(b) == b # "NotConfigured"

Unset == [unset |-> TRUE]   \* a key the DRF_CACHING dict does not give

\* Settings(**settings): the validated model, TIMEOUT defaulting to None
SettingsModel(raw) ==
    [HEADERS |-> raw.HEADERS,
     TIMEOUT |-> IF raw.TIMEOUT = Unset THEN None ELSE raw.TIMEOUT]

\* CacheView._get_settings: the error it raises, or "none"
_get_settings(raw, b) ==
    IF raw.kind = "missing" THEN "MissingSettingsError"
    ELSE IF raw.kind = "not a dict" THEN "InvalidSettingsError"
    ELSE IF ~validate_cache(b) \/ ~validate_headers(raw.HEADERS)
         THEN "InvalidSettingsError"
    ELSE IF raw.TIMEOUT = Unset THEN "none"
    ELSE IF validate_timeout(raw.TIMEOUT) = "ValueError" THEN "InvalidSettingsError"
    ELSE validate_timeout(raw.TIMEOUT)

----------------------------------------------------------------------------
(* cache.py: CacheView.__init__ *)

\* The cache classes cache.py imports.
SupportedClasses ==
    {"DatabaseCache", "DjangoRedisCache", "DummyCache", "FileBasedCache",
     "PyLibMCCache", "PyMemcacheCache", "RedisCache", "LocMemCache"}

\* ... with a subclass of LocMemCache, a BaseCache that is none of them, and
\* an alias django does not configure.
Backends == SupportedClasses \cup {"LocMemSubclass", "OtherCache", "NotConfigured"}

\* The classes of type(b).__mro__ that matter here.
Mro(b) == IF b = "LocMemSubclass" THEN {"LocMemSubclass", "LocMemCache"} ELSE {b}

isinstance(b, classes) == Mro(b) \cap classes # {}

\* The backends _get_headers lists as having no Age / Expires.
NoTtlClasses ==
    {"DatabaseCache", "DummyCache", "FileBasedCache", "PyLibMCCache",
     "PyMemcacheCache", "RedisCache"}

\* CacheView._get_cache: the error it raises, or "none"
_get_cache(b) ==
    IF isinstance(b, SupportedClasses) THEN "none" ELSE "CacheNotSupportedError"

\* x in self.settings.HEADERS, for a HEADERS that is a list
InList(x, l) == x \in l.list

\* CacheView._get_headers: the error it raises, or "none" (it then returns
\* settings.HEADERS).  `x in None` is a TypeError.
_get_headers(b, s, timeout) ==
    IF /\ isinstance(b, NoTtlClasses)
       /\ s.HEADERS # None
       /\ (InList("age", s.HEADERS) \/ InList("expires", s.HEADERS))
    THEN NewHeaderNotSupportedError(1, {"reason"})
    ELSE IF timeout = None \/ s.TIMEOUT = None
         THEN IF s.HEADERS = None THEN "TypeError"
              ELSE IF InList("age", s.HEADERS) \/ InList("cache-control", s.HEADERS)
                   THEN NewHeaderNotSupportedError(1, {"reason"})
                   ELSE "none"
         ELSE "none"

\* CacheView._get_keys: the error it raises, or "none"
_get_keys(ks) ==
    IF \A i \in 1..Len(ks) : ks[i].cls \in KeyClasses
    THEN "none" ELSE "InvalidArgumentError"

\* CacheView._get_timeout: the error it raises, or "none".  settings.TIMEOUT
\* is None or an int, never NotGiven.
_get_timeout_error(s, timeout) ==
    IF timeout = NotGiven /\ s.TIMEOUT = NotGiven THEN "InvalidArgumentError"
    ELSE IF timeout # None /\ timeout # NotGiven /\ ~IsInt(timeout)
         THEN "InvalidArgumentError"
    ELSE IF IsInt(timeout) /\ timeout.int < 0 THEN "InvalidArgumentError"
    ELSE "none"

\* CacheView._get_timeout: the value it returns
_get_timeout(s, timeout) == IF timeout = NotGiven THEN s.TIMEOUT ELSE timeout

\* CacheView.__init__: the first error of its five steps, or "none"
InitError(raw, b, timeout, ks) ==
    IF _get_settings(raw, b) # "none" THEN _get_settings(raw, b)
    ELSE IF _get_cache(b) # "none" THEN _get_cache(b)
    ELSE IF _get_headers(b, SettingsModel(raw), timeout) # "none"
         THEN _get_headers(b, SettingsModel(raw), timeout)
    ELSE IF _get_keys(ks) # "none" THEN _get_keys(ks)
    ELSE _get_timeout_error(SettingsModel(raw), timeout)

NoSelf == [headers |-> None, timeout |-> None]

\* cache_view(*keys, timeout=...): CacheView.__init__
Construct ==
    /\ phase = "new"
    /\ LET e == InitError(settings, backend, timeoutArg, keys)
       IN  IF e = "none"
           THEN /\ phase' = "ready"
                /\ error' = "none"
                /\ self' = [headers |-> SettingsModel(settings).HEADERS,
                            timeout |-> _get_timeout(SettingsModel(settings), timeoutArg)]
           ELSE /\ phase' = "failed"
                /\ error' = e
                /\ self' = NoSelf
    /\ UNCHANGED <<settings, backend, timeoutArg, keys, store, now, request, key,
                   resp, served, keyOf, procs>>

----------------------------------------------------------------------------
(* Bounds of the model *)

TicksPerSec == 2    \* clock ticks per second
MaxTime == 5        \* the clock stops here, in ticks
MaxTimeout == 2     \* the largest timeout configured, in seconds
MaxRequests == 3    \* the number of requests a behaviour handles

----------------------------------------------------------------------------
(* The cache backend, as cache.py uses it: get, set, ttl, _expire_info *)

\* The response headers cache.py reads and writes, by their lower-case names
\* (response.headers is a case-insensitive mapping).
HeaderKeys == {"age", "cache-control", "etag", "expires", "x-cache"}

NoHeaders == [h \in HeaderKeys |-> AbsentH]

\* The expiry record of an entry set at time t with the given timeout.
ExpireAt(timeout, t) ==
    IF timeout = None THEN None ELSE PyInt(t + timeout.int * TicksPerSec)

\* self.cache.get(key): the stored quadruple, or None
cache_get(st, k) == IF k \in DOMAIN st THEN st[k] ELSE None

\* self.cache.set(key, quadruple, self.timeout) at time t: DummyCache keeps
\* nothing, a timeout of 0 leaves no readable entry, None never expires.
cache_set(st, b, k, value, timeout, t) ==
    IF b = "DummyCache" THEN st
    ELSE IF timeout # None /\ timeout.int <= 0
         THEN [x \in DOMAIN st \ {k} |-> st[x]]
    ELSE [x \in DOMAIN st \cup {k} |->
            IF x = k THEN [value EXCEPT !.expire = ExpireAt(timeout, t)] ELSE st[x]]

\* What the backend holds about key k when asked after the get: the expiry
\* record of the entry now stored, or Vanished when there is none any more.
Vanished == [vanished |-> TRUE]

ExpireRecord(st, k) == IF k \in DOMAIN st THEN st[k].expire ELSE Vanished

\* Entries whose expiry has passed at time t are gone.
Live(st, t) ==
    [x \in {y \in DOMAIN st : st[y].expire = None \/ st[y].expire.int > t} |-> st[x]]

\* Python's round(num / den): to the nearest integer, a tie to the even one
round(num, den) ==
    LET q == num \div den
        r == num % den
    IN  IF 2 * r < den THEN q
        ELSE IF 2 * r > den THEN q + 1
        ELSE IF q % 2 = 0 THEN q ELSE q + 1

\* django-redis ttl(key): the seconds Redis reports for the remaining time,
\* (milliseconds + 500) / 1000, None for an entry that never expires, 0 for
\* a key that does not exist
ttl(expire, t) ==
    IF expire = Vanished THEN PyInt(0)
    ELSE IF expire = None THEN None
    ELSE PyInt((2 * (expire.int - t) + TicksPerSec) \div (2 * TicksPerSec))

Raised(e) == [raised |-> e]
IsRaised(v) == "raised" \in DOMAIN v

----------------------------------------------------------------------------
(* cache.py: CacheView._get_age, _get_expires *)

\* The table {...}[type(self.cache)]() of _get_age: the raw age of the entry
\* whose expiry record is `expire`, read at time t
RawAge(b, timeout, expire, t) ==
    IF b \notin SupportedClasses THEN Raised("KeyError")
    ELSE IF b = "DjangoRedisCache"
         THEN IF timeout = None \/ ttl(expire, t) = None THEN Raised("TypeError")
              ELSE PyInt(timeout.int - ttl(expire, t).int)
    ELSE IF b = "LocMemCache"
         THEN IF timeout = None \/ expire \in {None, Vanished} THEN Raised("TypeError")
              ELSE PyInt(round(timeout.int * TicksPerSec - (expire.int - t), TicksPerSec))
    ELSE None

\* A mutant of the match statement: the raw age is returned as it is.
MatchAgeUnclamped(age, timeout) == age

\* match age: case 0: return 1; case self.timeout: return self.timeout - 1;
\* case _: return age
MatchAge(age, timeout) ==
    IF age = PyInt(0) THEN PyInt(1)
    ELSE IF age = timeout
         THEN IF timeout = None THEN Raised("TypeError") ELSE PyInt(timeout.int - 1)
    ELSE age

\* CacheView._get_age
_get_age(b, timeout, expire, t) ==
    IF IsRaised(RawAge(b, timeout, expire, t)) THEN RawAge(b, timeout, expire, t)
    ELSE MatchAge(RawAge(b, timeout, expire, t), timeout)

\* strftime("%a, %d %b %Y %H:%M:%S GMT") of a timestamp in ticks: the date
\* to the second
HttpDate(ticks) == [date |-> ticks \div TicksPerSec]

\* CacheView._get_expires
_get_expires(b, expire, t) ==
    IF b \notin SupportedClasses THEN Raised("KeyError")
    ELSE IF b = "DjangoRedisCache"
         THEN IF ttl(expire, t) = None THEN Raised("TypeError")
              ELSE HttpDate(t + ttl(expire, t).int * TicksPerSec)
    ELSE IF b = "LocMemCache"
         THEN IF expire \in {None, Vanished} THEN Raised("TypeError")
              ELSE HttpDate(expire.int)
    ELSE None

----------------------------------------------------------------------------
(* cache.py: CacheView._get_response and its two paths *)

\* What a request returned: kind "response" with its status, body and
\* headers, or kind "raised" with the exception.  path tells which branch of
\* _get_response ran; own are the headers the wrapped view itself had put on
\* the response (on a hit: on the response that was stored); rawAge is the
\* age before the match statement of _get_age; at is the time of the request;
\* gets, sets and calls count the request's calls of cache.get, of cache.set
\* and of the wrapped view, and viewStatus is the status the view returned.
NoResp ==
    [kind |-> "none", path |-> "none", status |-> 0, content |-> "", media |-> "",
     headers |-> NoHeaders, own |-> NoHeaders, error |-> "none", rawAge |-> None,
     at |-> 0, gets |-> 0, sets |-> 0, calls |-> 0, viewStatus |-> 0]

\* A mutant of the status test: every response is stored.
ShouldStoreAlways(status) == TRUE

\* if response.status_code < 400
ShouldStore(status) == status < 400

\* response.headers["X-Cache"] = "MISS"
MissXCache == "MISS"

\* A mutant of the miss path: Cache-Control is assigned without the test of
\* the allow-list.
MissHeadersUnguarded(own, allow, timeout) ==
    [h \in HeaderKeys |->
        IF h = "age" /\ InList("age", allow) THEN H(0)
        ELSE IF h = "cache-control" THEN H(<<"max-age=", timeout>>)
        ELSE IF h = "x-cache" /\ InList("x-cache", allow) THEN H(MissXCache)
        ELSE own[h]]

\* _get_response_from_view, status < 400: the headers after the three
\* assignments
MissHeaders(own, allow, timeout) ==
    [h \in HeaderKeys |->
        IF h = "age" /\ InList("age", allow) THEN H(0)
        ELSE IF h = "cache-control" /\ InList("cache-control", allow)
             THEN H(<<"max-age=", timeout>>)
        ELSE IF h = "x-cache" /\ InList("x-cache", allow) THEN H(MissXCache)
        ELSE own[h]]

\* CacheView._get_response_from_view, given what the wrapped view returns:
\* the response (or the exception) and the backend after it
_get_response_from_view(k, v, t) ==
    LET called == [NoResp EXCEPT !.path = "miss", !.own = v.headers, !.calls = 1,
                                 !.viewStatus = v.status]
    IN
    IF ShouldStore(v.status)
    THEN IF self.headers = None
         THEN [resp  |-> [called EXCEPT !.kind = "raised", !.error = "TypeError"],
               store |-> store]
         ELSE LET hs == MissHeaders(v.headers, self.headers, self.timeout)
                  quadruple == [status |-> v.status, content |-> v.content,
                                headers |-> hs, media |-> v.media,
                                expire |-> None, own |-> v.headers]
              IN  [resp  |-> [called EXCEPT !.kind = "response",
                                            !.status = v.status, !.content = v.content,
                                            !.media = v.media, !.headers = hs,
                                            !.sets = 1],
                   store |-> cache_set(store, backend, k, quadruple, self.timeout, t)]
    ELSE [resp  |-> [called EXCEPT !.kind = "response",
                                   !.status = v.status, !.content = v.content,
                                   !.media = v.media, !.headers = v.headers],
          store |-> store]

\* A mutant of the hit path: X-Cache is set only when the entry has none.
HitXCacheOnlyIfAbsent(stored, allow) ==
    IF InList("x-cache", allow) /\ stored = AbsentH THEN H("HIT") ELSE stored

\* if "x-cache" in self.headers and ("x-cache" not in headers or
\* headers["x-cache"] == "MISS"): headers["X-Cache"] = "HIT"
HitXCache(stored, allow) ==
    IF InList("x-cache", allow) /\ (stored = AbsentH \/ stored = H("MISS"))
    THEN H("HIT") ELSE stored

\* _get_response_from_cache: the headers after its five steps, given the
\* Age and Expires it derived (None when not asked for or not derivable)
HitHeaders(stored, allow, timeout, k, age, expires) ==
    [h \in HeaderKeys |->
        IF h = "age" /\ age # None THEN H(age.int)
        ELSE IF h = "cache-control" /\ InList("cache-control", allow) /\ stored[h] = AbsentH
             THEN H(<<"max-age=", timeout>>)
        ELSE IF h = "etag" /\ InList("etag", allow) /\ stored[h] = AbsentH THEN H(k)
        ELSE IF h = "expires" /\ expires # None /\ stored[h] = AbsentH THEN H(expires)
        ELSE IF h = "x-cache" THEN HitXCache(stored[h], allow)
        ELSE stored[h]]

\* A mutant of the hit path: the response is built with the default status.
HitStatusDefault(q) == 200

\* HttpResponse(content, status=status, headers=headers)
HitStatus(q) == q.status

\* CacheView._get_response_from_cache for the quadruple the get returned
_get_response_from_cache(k, q, t) ==
    LET base == [NoResp EXCEPT !.path = "hit", !.own = q.own]
    IN  IF self.headers = None THEN [base EXCEPT !.kind = "raised", !.error = "TypeError"]
        ELSE
        LET age == IF InList("age", self.headers)
                   THEN _get_age(backend, self.timeout, q.expire, t) ELSE None
            raw == IF InList("age", self.headers) /\ ~IsRaised(age)
                   THEN RawAge(backend, self.timeout, q.expire, t) ELSE None
            expires == IF IsRaised(age) THEN None
                       ELSE IF InList("expires", self.headers) /\ q.headers["expires"] = AbsentH
                            THEN _get_expires(backend, q.expire, t) ELSE None
        IN  IF IsRaised(age)
            THEN [base EXCEPT !.kind = "raised", !.error = age.raised]
            ELSE IF IsRaised(expires)
            THEN [base EXCEPT !.kind = "raised", !.error = expires.raised]
            ELSE [base EXCEPT !.kind = "response", !.status = HitStatus(q),
                              !.content = q.content, !.media = q.media,
                              !.rawAge = raw,
                              !.headers = HitHeaders(q.headers, self.headers,
                                                     self.timeout, k, age, expires)]

\* CacheView._get_response: one request r through the decorated view; v is
\* what the wrapped view returns if it is invoked
_get_response(r, v) ==
    IF _get_key_error(keys, r) # "none"
    THEN /\ request' = r
         /\ resp' = [NoResp EXCEPT !.kind = "raised", !.path = "key",
                                   !.error = _get_key_error(keys, r), !.at = now]
         /\ UNCHANGED <<key, keyOf, store>>
    ELSE
    LET k == _get_key(keys, r)
        q == cache_get(store, k)
    IN  /\ request' = r
        /\ key' = k
        /\ keyOf' = IF r \in DOMAIN keyOf THEN keyOf
                     ELSE [x \in DOMAIN keyOf \cup {r} |-> IF x = r THEN k ELSE keyOf[x]]
        /\ IF q = None
           THEN /\ resp' = [_get_response_from_view(k, v, now).resp
                               EXCEPT !.at = now, !.gets = 1]
                /\ store' = _get_response_from_view(k, v, now).store
           ELSE /\ resp' = [_get_response_from_cache(k, q, now)
                               EXCEPT !.at = now, !.gets = 1]
                /\ store' = store

----------------------------------------------------------------------------
(* The requests and the wrapped view *)

\* A request, as far as the key strategies read it.
MkRequest(a, b, h) ==
    [view_id |-> "views.ItemView.get", format |-> "json",
     kwargs |-> [f \in {FieldA, FieldB} |-> IF f = FieldA THEN a ELSE b],
     headers |-> [f \in {FieldH} |-> h],
     paginator |-> "PageNumberPagination",
     query |-> [f \in {PageParam, PageSizeParam, LimitParam, OffsetParam, CursorParam}
                  |-> None]]

\* The requests served through the cache: two values of the kwarg "a".
Requests == {MkRequest(PyStr(<<"x">>), None, None), MkRequest(PyStr(<<"y">>), None, None)}

\* The headers the wrapped view may itself put on its response.
OwnHeaders ==
    { NoHeaders,
      [NoHeaders EXCEPT !["cache-control"] = H(<<"no-store">>),
                        !["x-cache"] = H("BYPASS")] }

\* What the wrapped view (after finalize_response) may return.
ViewResults ==
    [status : {200, 500}, content : {"body"}, media : {"application/json"},
     headers : OwnHeaders]

\* One request through the decorated view.
Request ==
    /\ phase = "ready"
    /\ served < MaxRequests
    /\ \E r \in Requests, v \in ViewResults : _get_response(r, v)
    /\ served' = served + 1
    /\ UNCHANGED <<settings, backend, timeoutArg, keys, phase, error, self, now,
                   procs>>

\* Time passes; the backend drops what has expired.  The clock is read only
\* against the expiry record of a stored entry, so time is counted while the
\* backend holds one.
Tick ==
    /\ phase = "ready"
    /\ now < MaxTime
    /\ DOMAIN store # {}
    /\ now' = now + 1
    /\ store' = Live(store, now + 1)
    /\ UNCHANGED <<settings, backend, timeoutArg, keys, phase, error, self, request,
                   key, resp, served, keyOf, procs>>

----------------------------------------------------------------------------
(* Configurations *)

\* The HEADERS settings tried.
HeaderLists ==
    { PyList({}), PyList({"x-cache"}), PyList({"age"}), PyList({"expires"}),
      PyList({"cache-control", "x-cache"}), PyList({"etag", "expires", "x-cache"}),
      PyList({"age", "cache-control", "etag", "expires", "x-cache"}),
      PyList({"X-Cache"}), PyList({"pragma"}), None }

\* The HEADERS settings requests are served under.
ServeHeaderLists ==
    { PyList({"cache-control", "x-cache"}), PyList({"etag", "expires", "x-cache"}),
      PyList({"age", "cache-control", "etag", "expires", "x-cache"}), None }

\* DRF_CACHING as a dict
SettingsDicts(headerLists, timeouts) ==
    [kind : {"dict"}, HEADERS : headerLists, TIMEOUT : timeouts]

NoSettings == [kind |-> "missing", HEADERS |-> None, TIMEOUT |-> Unset]

KwargsA == [cls |-> "RequestKwargsKey", fields |-> <<FieldA>>]

\* The requests in flight at once.
Procs == {1, 2}

\* A request that has not entered _get_response yet: its position, the key
\* it composed, what its cache.get returned, what the view returned to it,
\* what it returned, and the rank of its cache.set among all (0: none).
NoProc ==
    [pc |-> "start", k |-> << >>, q |-> None, v |-> None, resp |-> NoResp,
     setRank |-> 0]

InitRest ==
    /\ phase = "new"
    /\ error = "none"
    /\ self = NoSelf
    /\ store = << >>
    /\ now = 0
    /\ request = MkRequest(None, None, None)
    /\ key = <<>>
    /\ resp = NoResp
    /\ served = 0
    /\ keyOf = << >>
    /\ procs = [p \in Procs |-> NoProc]

\* The decorator is applied to a view under some configuration; requests
\* follow once it is constructed.
Init ==
    /\ settings \in SettingsDicts(ServeHeaderLists, {PyInt(MaxTimeout)})
    /\ backend \in {"LocMemCache", "DjangoRedisCache", "DummyCache", "LocMemSubclass"}
    /\ timeoutArg \in {NotGiven, None} \cup {PyInt(n) : n \in 0..MaxTimeout}
    /\ keys = <<KwargsA>>
    /\ InitRest

Next == Construct \/ Request \/ Tick

Spec == Init /\ [][Next]_vars

----------------------------------------------------------------------------
(* Construction alone, under every configuration *)

NotADict == [kind |-> "not a dict", HEADERS |-> None, TIMEOUT |-> Unset]

InitConstruct ==
    /\ settings \in
          SettingsDicts(HeaderLists,
                        {Unset, None} \cup {PyInt(n) : n \in 0..MaxTimeout})
          \cup {NoSettings, NotADict}
    /\ backend \in Backends
    /\ timeoutArg \in {NotGiven, None, PyStr(<<"5">>)}
                      \cup {PyInt(n) : n \in (-1)..MaxTimeout}
    /\ keys \in {<<KwargsA>>, << >>, <<[cls |-> "str", fields |-> << >>]>>}
    /\ InitRest

NextConstruct == Construct

SpecConstruct == InitConstruct /\ [][NextConstruct]_vars

----------------------------------------------------------------------------
(* Key composition alone, over strategy lists and request facets *)

KwargsB == [cls |-> "RequestKwargsKey", fields |-> <<FieldB>>]
KwargsAB == [cls |-> "RequestKwargsKey", fields |-> <<FieldA, FieldB>>]
AppKwargsB == [cls |-> "app.RequestKwargsKey", fields |-> <<FieldB>>]
HeadersH == [cls |-> "RequestHeadersKey", fields |-> <<FieldH>>]
LookupField == [cls |-> "LookupFieldKey", fields |-> << >>]

\* The strategy lists passed to the decorator.
KeyConfigs ==
    { <<KwargsA>>, <<KwargsAB>>, <<KwargsA, KwargsB>>, <<KwargsB, KwargsA>>,
      <<KwargsB, HeadersH>>, <<HeadersH, KwargsB>>, <<KwargsA, AppKwargsB>>,
      <<KwargsB, HeadersH, LookupField>>, <<LookupField, KwargsB, HeadersH>> }

\* Every request over the facet values.
KeyRequests == {MkRequest(a, b, h) : a \in FacetValues, b \in FacetValues, h \in FacetValues}

\* _get_key on one request, once per behaviour; nothing is read from or
\* written to the backend.
ComposeKey ==
    /\ phase = "ready"
    /\ key = << >>
    /\ \E r \in KeyRequests :
          /\ request' = r
          /\ key' = _get_key(keys, r)
    /\ UNCHANGED <<settings, backend, timeoutArg, keys, phase, error, self, store,
                   now, resp, served, keyOf, procs>>

InitKey ==
    /\ settings = [kind |-> "dict", HEADERS |-> PyList({"etag", "x-cache"}),
                   TIMEOUT |-> PyInt(MaxTimeout)]
    /\ backend = "LocMemCache"
    /\ timeoutArg = NotGiven
    /\ keys \in KeyConfigs
    /\ InitRest

NextKey == Construct \/ ComposeKey

SpecKey == InitKey /\ [][NextKey]_vars

\* The facet mappings the strategies extract from a request.
Facets(ks, r) == [i \in 1..Len(ks) |-> _get_data(ks[i], r)]

\* The orders in which the strategies ks can be passed.
Perms(ks) ==
    LET n == Len(ks)
    IN  { [i \in 1..n |-> ks[p[i]]] :
            p \in {q \in [1..n -> 1..n] : \A i, j \in 1..n : q[i] = q[j] => i = j} }

DistinctClasses(ks) ==
    \A i, j \in 1..Len(ks) : i # j => ks[i].cls # ks[j].cls

DistinctClassNames(ks) ==
    \A i, j \in 1..Len(ks) : i # j => ClassName(ks[i].cls) # ClassName(ks[j].cls)

\* Two instances of one class that read disjoint fields.
SameClassDisjoint(ks) ==
    /\ Len(ks) = 2
    /\ ks[1].cls = ks[2].cls
    /\ {ks[1].fields[i] : i \in 1..Len(ks[1].fields)}
         \cap {ks[2].fields[i] : i \in 1..Len(ks[2].fields)} = {}

----------------------------------------------------------------------------
(* Requests served under HEADERS in other spellings than the canonical one *)

\* Spellings Settings.validate_headers accepts, with the canonical ones.
SpelledHeaderLists ==
    { PyList({"x-cache"}), PyList({"X-Cache"}), PyList({"cache-control"}),
      PyList({"Cache-Control"}), PyList({"cache_control"}) }

InitSpelling ==
    /\ settings \in SettingsDicts(SpelledHeaderLists, {PyInt(MaxTimeout)})
    /\ backend = "LocMemCache"
    /\ timeoutArg = NotGiven
    /\ keys = <<KwargsA>>
    /\ InitRest

NextSpelling == Construct \/ Request

SpecSpelling == InitSpelling /\ [][NextSpelling]_vars

\* The lower-case hyphenated spelling of a name validate_headers accepts.
Canonical(header) ==
    IF normalize(header) = "cache_control" THEN "cache-control"
    ELSE IF normalize(header) = "x_cache" THEN "x-cache"
    ELSE normalize(header)

----------------------------------------------------------------------------
(* Requests whose key strategies may fail on the request's data *)

PositionA == [cls |-> "app.PositionKey", fields |-> << >>]
Pagination == [cls |-> "RequestPaginationKey", fields |-> << >>]

\* A request to a view with the given paginator (NoPaginator: the view's
\* pagination_class is None) and ?page=<page>.
MkPagedRequest(paginator, page) ==
    [MkRequest(PyStr(<<"x">>), None, None)
        EXCEPT !.paginator = paginator, !.query[PageParam] = page]

DataRequests ==
    {MkPagedRequest(pg, None) : pg \in PaginatorClasses \cup {"NoPaginator"}}
        \cup {MkPagedRequest("PageNumberPagination", PyStr(<<"x">>))}

\* What the wrapped view may return to them.
DataViewResults ==
    [status : {200, 500}, content : {"body"}, media : {"application/json"},
     headers : {NoHeaders}]
    \cup [status : {201}, content : {"created"}, media : {"application/json"},
          headers : {NoHeaders}]

\* One request through the decorated view, over the views and query strings
\* above.
DataRequest ==
    /\ phase = "ready"
    /\ served < MaxRequests
    /\ \E r \in DataRequests, v \in DataViewResults : _get_response(r, v)
    /\ served' = served + 1
    /\ UNCHANGED <<settings, backend, timeoutArg, keys, phase, error, self, now,
                   procs>>

InitData ==
    /\ settings = [kind |-> "dict", HEADERS |-> PyList({"etag", "expires", "x-cache"}),
                   TIMEOUT |-> PyInt(MaxTimeout)]
    /\ backend = "LocMemCache"
    /\ timeoutArg = NotGiven
    /\ keys \in {<<Pagination>>, <<KwargsA, PositionA>>, <<PositionA>>}
    /\ InitRest

\* No time passes between these requests.
NextData == Construct \/ DataRequest

SpecData == InitData /\ [][NextData]_vars

\* Some strategy of ks returns, for request r, a dict with a key that is
\* not a str.
NonStrKey(ks, r) ==
    \E i \in 1..Len(ks) :
        /\ _get_data_error(ks[i], r) = "none"
        /\ \E j \in 1..Len(_get_data(ks[i], r)) : ~IsStr(_get_data(ks[i], r)[j][1])

\* A RequestPaginationKey of ks meets, in request r, a paginator that is
\* not one of the three.
UnknownPaginator(ks, r) ==
    \E i \in 1..Len(ks) :
        ks[i].cls = "RequestPaginationKey" /\ r.paginator \notin PaginatorClasses

----------------------------------------------------------------------------
(* Two requests for the same key handled at once: _get_response in steps,
   one per call that reads or writes the backend or enters the view *)

\* Both requests carry the same facets.
ConcurrentRequest == MkRequest(PyStr(<<"x">>), None, None)

\* What the wrapped view may return to request p: the body tells who asked.
ViewResultsOf(p) ==
    [status : {200, 500}, content : {<<"body", p>>}, media : {"application/json"},
     headers : {NoHeaders}]

\* key = self._get_key(...); response_quadruple = self.cache.get(key)
Get ==
    /\ phase = "ready"
    /\ \E p \in Procs :
          /\ procs[p].pc = "start"
          /\ LET k == _get_key(keys, ConcurrentRequest)
                 q == cache_get(store, k)
             IN  procs' = [procs EXCEPT ![p] =
                             [@ EXCEPT !.pc = IF q = None THEN "view" ELSE "replay",
                                       !.k = k, !.q = q]]
    /\ UNCHANGED <<settings, backend, timeoutArg, keys, phase, error, self, store,
                   now, request, key, resp, served, keyOf>>

\* _get_response_from_view, up to the view's response: the view is invoked
CallView ==
    /\ \E p \in Procs :
          /\ procs[p].pc = "view"
          /\ \E v \in ViewResultsOf(p) :
                procs' = [procs EXCEPT ![p] = [@ EXCEPT !.pc = "store", !.v = v]]
    /\ UNCHANGED <<settings, backend, timeoutArg, keys, phase, error, self, store,
                   now, request, key, resp, served, keyOf>>

\* _get_response_from_view, from the status test on: the headers, the
\* cache.set, the return
StampAndSet ==
    /\ \E p \in Procs :
          /\ procs[p].pc = "store"
          /\ LET out == _get_response_from_view(procs[p].k, procs[p].v, now)
                 rank == IF out.resp.sets = 1
                         THEN 1 + Cardinality({x \in Procs : procs[x].setRank > 0})
                         ELSE 0
             IN  /\ store' = out.store
                 /\ procs' = [procs EXCEPT ![p] =
                                 [@ EXCEPT !.pc = "done", !.setRank = rank,
                                           !.resp = [out.resp EXCEPT !.gets = 1]]]
    /\ UNCHANGED <<settings, backend, timeoutArg, keys, phase, error, self, now,
                   request, key, resp, served, keyOf>>

\* _get_response_from_cache: _get_age and _get_expires ask the backend again
Replay ==
    /\ \E p \in Procs :
          /\ procs[p].pc = "replay"
          /\ LET q == [procs[p].q EXCEPT !.expire = ExpireRecord(store, procs[p].k)]
                 out == _get_response_from_cache(procs[p].k, q, now)
             IN  procs' = [procs EXCEPT ![p] =
                             [@ EXCEPT !.pc = "done",
                                       !.resp = [out EXCEPT !.gets = 1]]]
    /\ UNCHANGED <<settings, backend, timeoutArg, keys, phase, error, self, store,
                   now, request, key, resp, served, keyOf>>

InitConcurrent ==
    /\ settings \in SettingsDicts(ServeHeaderLists, {PyInt(MaxTimeout)})
    /\ backend \in {"LocMemCache", "DjangoRedisCache", "LocMemSubclass"}
    /\ timeoutArg = NotGiven
    /\ keys = <<KwargsA>>
    /\ InitRest

NextConcurrent == Construct \/ Get \/ CallView \/ StampAndSet \/ Replay

SpecConcurrent == InitConcurrent /\ [][NextConcurrent]_vars

\* The backend drops an entry on its own: it expired, or it was evicted to
\* make room.
Evict ==
    /\ phase = "ready"
    /\ \E k \in DOMAIN store : store' = [x \in DOMAIN store \ {k} |-> store[x]]
    /\ UNCHANGED <<settings, backend, timeoutArg, keys, phase, error, self, now,
                   request, key, resp, served, keyOf, procs>>

InitVanish ==
    /\ settings \in
          SettingsDicts({ PyList({"cache-control", "x-cache"}),
                          PyList({"etag", "expires", "x-cache"}),
                          PyList({"age", "cache-control", "etag", "expires", "x-cache"}) },
                        {PyInt(MaxTimeout)})
    /\ backend \in {"LocMemCache", "DjangoRedisCache"}
    /\ timeoutArg = NotGiven
    /\ keys = <<KwargsA>>
    /\ InitRest

NextVanish == Construct \/ Get \/ CallView \/ StampAndSet \/ Replay \/ Evict

SpecVanish == InitVanish /\ [][NextVanish]_vars

\* Both requests have returned or raised.
AllDone == \A p \in Procs : procs[p].pc = "done"

----------------------------------------------------------------------------
(* Claims *)

\* The step is a request handled by _get_response.
RequestStep == served' = served + 1

\* The response carries header h with value v.
Carries(r, h, v) == r.kind = "response" /\ r.headers[h] = H(v)

Allowed(h) == self.headers # None /\ InList(h, self.headers)

\* C1: every entry of the backend has a status below 400, and a request
\* whose wrapped view returns a status >= 400 leaves the backend as it was.
C1_NoErrorStored ==
    /\ [](\A k \in DOMAIN store : store[k].status < 400)
    /\ [][(RequestStep /\ resp'.path = "miss" /\ resp'.kind = "response"
              /\ resp'.status >= 400) => store' = store]_vars

\* C1 witness: a 500 was returned while the backend held an entry.
C1_Witness ==
    /\ resp.kind = "response" /\ resp.path = "miss" /\ resp.status = 500
    /\ DOMAIN store # {}

AgeReported == resp.kind = "response" /\ resp.path = "hit" /\ resp.rawAge # None

\* C3 as stated: for every timeout the decorator accepts, the Age reported
\* on a hit lies in [1, timeout - 1]: it is never 0 and never the timeout.
C3_Original ==
    AgeReported =>
        \E a \in 1..(self.timeout.int - 1) : resp.headers["age"] = H(a)

\* C3 amended: for every accepted timeout of at least 2, the Age reported on
\* a hit lies in [1, timeout - 1]: a raw age of 0 is reported as 1, a raw age
\* equal to the timeout as timeout - 1, any other raw age as it is.
C3_AgeClamped ==
    (AgeReported /\ self.timeout.int >= 2) =>
        /\ \E a \in 1..(self.timeout.int - 1) : resp.headers["age"] = H(a)
        /\ resp.headers["age"] =
              IF resp.rawAge.int = 0 THEN H(1)
              ELSE IF resp.rawAge = self.timeout THEN H(self.timeout.int - 1)
              ELSE H(resp.rawAge.int)

\* C3 witness: both clamps have acted under a timeout of at least 2.
C3_Witness ==
    /\ AgeReported /\ self.timeout.int >= 2
    /\ resp.rawAge = self.timeout
    /\ resp.headers["age"] = H(self.timeout.int - 1)

\* C4 as stated: requests whose extracted facet values differ in any facet
\* have different composed keys.
C4_Injective ==
    key # << >> =>
        \A r \in KeyRequests :
            Facets(keys, r) # Facets(keys, request) => _get_key(keys, r) # key

C6_Original ==
    (key # << >> /\ DistinctClasses(keys)) =>
        \A ks \in Perms(keys) : _get_key(ks, request) = key

\* C6 amended: strategies whose classes have distinct names (__name__)
\* passed in any order compose the same key for the same request.
C6_OrderIndependent ==
    (key # << >> /\ DistinctClassNames(keys)) =>
        \A ks \in Perms(keys) : _get_key(ks, request) = key

\* C6 witness: a key composed from three strategies of distinct class names
\* whose fingerprints differ from one another.
C6_Witness ==
    /\ key # << >> /\ DistinctClassNames(keys) /\ Len(keys) = 3
    /\ \A i, j \in 1..3 : i # j => get_key(keys[i], request) # get_key(keys[j], request)

\* C7 as stated: with two instances of one class reading disjoint fields,
\* changing the value of a field read by either instance changes the key.
C7_BothContribute ==
    (key # << >> /\ SameClassDisjoint(keys)) =>
        \A r \in KeyRequests :
            (\E i \in 1..2 : _get_data(keys[i], r) # _get_data(keys[i], request))
                => _get_key(keys, r) # key

\* C8 as stated: with settings that are otherwise valid, 'age' or 'expires'
\* in HEADERS and a backend without TTL introspection, construction fails
\* with HeaderNotSupportedError.
C8_HeaderNotSupported ==
    (/\ phase # "new"
     /\ _get_settings(settings, backend) = "none"
     /\ backend \in NoTtlClasses
     /\ settings.HEADERS # None
     /\ (InList("age", settings.HEADERS) \/ InList("expires", settings.HEADERS)))
        => phase = "failed" /\ error = "HeaderNotSupportedError"

\* C9 as stated, for the backend's type: once construction has succeeded, no
\* request fails on the backend's type (the KeyError of the tables of
\* _get_age and _get_expires), a subclass of a supported class included.
C9_NoPerRequestConfigError ==
    phase = "ready" => ~(resp.kind = "raised" /\ resp.error = "KeyError")

\* C10 as stated: a Cache-Control or X-Cache header the wrapped view put on
\* its response is not overwritten, on the miss path and on the hit path,
\* except that an X-Cache of MISS becomes HIT on a hit.
C10_OwnHeadersKept ==
    resp.kind = "response" =>
        \A h \in {"cache-control", "x-cache"} :
            resp.own[h] # AbsentH =>
                \/ resp.headers[h] = resp.own[h]
                \/ /\ h = "x-cache" /\ resp.path = "hit"
                   /\ resp.own[h] = H("MISS") /\ resp.headers[h] = H("HIT")

\* Header h is not in the allow-list of the constructed decorator.
NotAllowed(h) == self.headers = None \/ ~InList(h, self.headers)

\* C11: a header whose name is not in HEADERS is, on every response returned
\* (miss or hit) and in every stored entry, as the wrapped view left it.
C11_OnlyAllowListed ==
    \A h \in HeaderKeys :
        (phase = "ready" /\ NotAllowed(h)) =>
            /\ resp.kind = "response" => resp.headers[h] = resp.own[h]
            /\ \A k \in DOMAIN store : store[k].headers[h] = store[k].own[h]

\* C11 witness: a hit replays the Cache-Control the view had set, which the
\* allow-list does not name, while other headers were added.
C11_Witness ==
    /\ resp.kind = "response" /\ resp.path = "hit"
    /\ NotAllowed("cache-control") /\ resp.own["cache-control"] # AbsentH
    /\ resp.headers["cache-control"] = resp.own["cache-control"]
    /\ resp.headers["etag"] # AbsentH
    /\ key \in DOMAIN store

\* C12 as stated: with etag allowed, every response to a successful request,
\* computed on a miss or replayed on a hit, carries an ETag equal to the key
\* composed for the request.
C12_ETagCarried ==
    (resp.kind = "response" /\ resp.status < 400 /\ Allowed("etag")) =>
        resp.headers["etag"] = H(key)

\* The settings are a valid dict, the backend is supported, the headers are
\* accepted and the keys are strategies: of the five steps of __init__ only
\* _get_timeout is left to fail.
OnlyTimeoutLeft ==
    /\ _get_settings(settings, backend) = "none"
    /\ _get_cache(backend) = "none"
    /\ _get_headers(backend, SettingsModel(settings), timeoutArg) = "none"
    /\ _get_keys(keys) = "none"

\* C13 as stated, construction: with no timeout argument and no TIMEOUT in
\* the settings, construction raises InvalidArgumentError.
C13_TimeoutRequired ==
    (/\ phase # "new" /\ OnlyTimeoutLeft
     /\ timeoutArg = NotGiven /\ settings.TIMEOUT = Unset)
        => phase = "failed" /\ error = "InvalidArgumentError"

\* C14 as stated: an integer timeout argument below 1 is rejected with
\* InvalidArgumentError, a settings TIMEOUT below 1 as invalid settings, and
\* no constructed decorator has an effective timeout of 0.
C14_TimeoutBelowOneRejected ==
    /\ (/\ phase # "new" /\ OnlyTimeoutLeft
         /\ IsInt(timeoutArg) /\ timeoutArg.int < 1)
            => phase = "failed" /\ error = "InvalidArgumentError"
    /\ (/\ phase # "new" /\ settings.kind = "dict" /\ validate_cache(backend)
         /\ settings.TIMEOUT \notin {Unset, None} /\ settings.TIMEOUT.int < 1)
            => phase = "failed" /\ error = "InvalidSettingsError"
    /\ phase = "ready" => self.timeout # PyInt(0)

\* C15 as stated: a request performs one cache.get; one cache.set if the get
\* missed and the view's status is below 400, none otherwise; and the backend
\* changes at most under the request's own key, where nothing is deleted.
C15_OneGetOneSet ==
    [][RequestStep =>
          /\ resp'.gets = 1
          /\ resp'.sets = IF resp'.path = "miss" /\ resp'.viewStatus < 400
                           THEN 1 ELSE 0
          /\ \A k \in DOMAIN store : k \in DOMAIN store'
          /\ \A k \in DOMAIN store : k # key' => store'[k] = store[k]
          /\ DOMAIN store' \subseteq DOMAIN store \cup {key'}]_vars

\* C16 as stated, for every interleaving: once both requests are over, both
\* have returned a response and the backend holds one entry for the key,
\* the one written by the last cache.set.
C16_BothAnsweredOneEntry ==
    AllDone =>
        /\ \A p \in Procs : procs[p].resp.kind = "response"
        /\ \E p \in Procs :
              /\ procs[p].setRank > 0
              /\ \A x \in Procs : procs[x].setRank <= procs[p].setRank
              /\ procs[p].k \in DOMAIN store
              /\ store[procs[p].k].content = procs[p].v.content

\* C17: a request whose strategies return a non-str key fails with
\* InvalidDataError, one whose RequestPaginationKey meets an unknown
\* paginator with UnsupportedPaginatorError; in both cases the view is not
\* invoked, cache.get and cache.set are not called and the backend is as it
\* was.
C17_DataErrorNoEffect ==
    [][RequestStep =>
          /\ NonStrKey(keys, request') =>
                resp'.kind = "raised" /\ resp'.error = "InvalidDataError"
          /\ UnknownPaginator(keys, request') =>
                resp'.kind = "raised" /\ resp'.error = "UnsupportedPaginatorError"
          /\ (NonStrKey(keys, request') \/ UnknownPaginator(keys, request')) =>
                /\ resp'.calls = 0 /\ resp'.gets = 0 /\ resp'.sets = 0
                /\ store' = store]_vars

\* C17 witness: a request failed on its paginator while the backend held
\* the entry of an earlier request, and left it there.
C17_Witness ==
    /\ resp.kind = "raised" /\ resp.error = "UnsupportedPaginatorError"
    /\ UnknownPaginator(keys, request)
    /\ resp.calls = 0 /\ resp.gets = 0
    /\ DOMAIN store # {}

\* C18: a request whose cache.get finds an entry does not invoke the view,
\* and the response it returns has the status and the body of that entry; a
\* request whose cache.get finds none invokes the view once.
C18_HitReplaysEntry ==
    [][(RequestStep /\ _get_key_error(keys, request') = "none") =>
          LET q == cache_get(store, _get_key(keys, request'))
          IN  /\ q # None =>
                    /\ resp'.path = "hit" /\ resp'.calls = 0
                    /\ resp'.kind = "response" =>
                          resp'.status = q.status /\ resp'.content = q.content
              /\ q = None => resp'.path = "miss" /\ resp'.calls = 1]_vars

\* C18 witness: a hit replayed a 201 entry, not the default status.
C18_Witness ==
    /\ resp.kind = "response" /\ resp.path = "hit" /\ resp.calls = 0
    /\ resp.status = 201 /\ resp.content = "created"
    /\ key \in DOMAIN store /\ store[key].status = 201

\* C19 as stated: with age or cache-control allowed, a backend that has
\* them and nothing else to reject, construction fails exactly when the
\* effective timeout (the argument if given, else the settings TIMEOUT) is
\* None; so it succeeds with an integer argument and no TIMEOUT in the
\* settings.
C19_EffectiveTimeoutOnly ==
    (/\ phase # "new"
     /\ _get_settings(settings, backend) = "none"
     /\ _get_cache(backend) = "none" /\ ~isinstance(backend, NoTtlClasses)
     /\ settings.HEADERS # None
     /\ (InList("age", settings.HEADERS) \/ InList("cache-control", settings.HEADERS))
     /\ _get_keys(keys) = "none"
     /\ _get_timeout_error(SettingsModel(settings), timeoutArg) = "none")
        => (phase = "failed" <=> _get_timeout(SettingsModel(settings), timeoutArg) = None)

\* C20 as stated: with HEADERS unset (None) and a configuration that is
\* otherwise valid, construction succeeds, and no request fails: the
\* responses are returned with the headers the view gave them.
C20_UnsetHeadersServe ==
    (/\ phase # "new" /\ settings.HEADERS = None
     /\ _get_settings(settings, backend) = "none" /\ _get_cache(backend) = "none"
     /\ _get_keys(keys) = "none"
     /\ _get_timeout_error(SettingsModel(settings), timeoutArg) = "none")
        => /\ phase = "ready"
           /\ resp.kind # "raised"
           /\ resp.kind = "response" => resp.headers = resp.own

\* C21 as stated: a response to a successful request carries the header of
\* every name in HEADERS that validation accepted, whatever its spelling: on
\* a miss the headers are those written for the canonical spellings, on a
\* hit X-Cache and Cache-Control are present when a spelling of them is
\* listed.
C21_SpellingHonoured ==
    (phase = "ready" /\ resp.kind = "response" /\ resp.status < 400) =>
        LET canon == PyList({Canonical(h) : h \in self.headers.list})
        IN  /\ resp.path = "miss" =>
                  resp.headers = MissHeaders(resp.own, canon, self.timeout)
            /\ resp.path = "hit" =>
                  \A h \in {"x-cache", "cache-control"} :
                      InList(h, canon) => resp.headers[h] # AbsentH

\* C22 as stated: a request whose cache.get returned an entry that is gone
\* from the backend when _get_response_from_cache runs still returns a
\* response, with LocMemCache and with django-redis.
C22_HitSurvivesVanish ==
    [][\A p \in Procs :
          (/\ procs[p].pc = "replay" /\ procs'[p].pc = "done"
           /\ procs[p].k \notin DOMAIN store
           /\ backend \in {"LocMemCache", "DjangoRedisCache"})
              => procs'[p].resp.kind = "response"]_vars

====
